---- MODULE Spec2Model ----
(***************************************************************************)
(* The Repo Archaeologist: the investigation orchestrator                  *)
(* (Investigator.investigate with LeadDetectiveAgent.investigate) and the  *)
(* Deep Dive agent (DeepDiveAgent.deepDive), as state machines.            *)
(*                                                                         *)
(* An action of the orchestrator is one run-to-completion block of the     *)
(* async code: from the point where an awaited promise settles to the next *)
(* await.  Calls on one Investigator instance share its fields             *)
(* (currentCaseFile, leadDetective.thoughtChain, onUpdate).                *)
(***************************************************************************)
EXTENDS Integers, Sequences, FiniteSets, TLC

\* ------------------------------------------------------------------ bounds
\* investigate calls made on one Investigator instance
NumCalls == 2
\* issues a pull request's body references (one longer body apart, which
\* references one issue more than gatherIssueData looks up)
MaxLinked == 2
\* source files of the repository a Deep Dive runs on (file 1 is the target)
NumFiles == 4
\* resolvable relative imports in the whole repository
MaxEdges == 4
\* largest configured maxDepth and maxFilesToExplore
MaxDepthCfg == 2
MaxFilesCfg == 3
\* commit, pull-request and issue references in one response text
MaxMentions == 2
\* largest issuesFound a self-critique reports
MaxIssuesFound == 2
\* the dates of Evidence items are the days 1..MaxDate
MaxDate == 3
\* start() and stop() calls made on one WatchModeAgent
MaxWatchCalls == 4
\* conflict blocks in the conflicted file
MaxConflicts == 3
\* lines of a resolution text
MaxResLines == 2

\* ------------------------------------------------------- program constants
\* maxRetries of LeadDetectiveAgent.investigate
MaxRetries == 3
\* pr.linkedIssues.slice(0, 5)
IssueLimit == 5

Calls == 1..NumCalls

\* no confidence pattern matches the response
NoMatch == -1
\* the numbers a Reasoning Service response can state as its confidence
RespStated == {NoMatch, 0, 85, 250}

\* outcomes of genai.models.generateContent: a response, or an error with
\* error.status 503, 429 or another one
RSErrors == {"s503", "s429", "s500"}

VARIABLES
  \* ---- the run's configuration, fixed by Init
  onUpdate,        \* Investigator.onUpdate is installed (config.onUpdate)
  maxCalls,        \* investigate calls the caller makes in this run
  overlap,         \* the caller starts a call while another is suspended
  varied,          \* the collaborators' answers vary in this run: lookups may
                   \* fail or find nothing, responses differ in their content
  \* ---- Investigator instance
  currentCaseFile, \* this.currentCaseFile: 0 (null) or the Case's id
  caseFile,        \* the CaseFile objects, by id (the id of the creating call)
  thoughtChain,    \* leadDetective.thoughtChain: the signatures arrays the
                   \* agent has created and the one the field refers to
  \* ---- each investigate call's frame
  pc,              \* where the call is suspended
  selHasRepo,      \* codeSelection.repoOwner / repoName are given
  issueNums,       \* gatherIssueData: pr.linkedIssues.slice(0, 5)
  issueIdx,        \* gatherIssueData: position of the loop
  synthCase,       \* LeadDetectiveAgent.investigate: its caseFile parameter
  attempt,         \* LeadDetectiveAgent.investigate: attempt
  result,          \* the InvestigationResult produced by synthesis
  outcome,         \* what the caller got: "none", "returned", "raised"
  \* ---- observation
  events,          \* the StreamUpdate phases handed to onUpdate, per call
  cbRaised,        \* the callback raised during the call
  envLog,          \* the external calls issued by the call, with outcomes
  \* ---- Deep Dive: the run's input, fixed by Init
  imports,         \* per file, the files its relative imports resolve to
  cfgMaxDepth,     \* config.maxDepth (0: also when it is not given)
  cfgMaxFiles,     \* config.maxFilesToExplore (0: also when it is not given)
  \* ---- DeepDiveAgent
  ddPc,            \* where deepDive is
  exploredFiles,   \* this.exploredFiles
  tree,            \* dependencyTree: its nodes, each with its place and file
  investigated,    \* the nodes whose investigated flag is set
  related,         \* the keys of relatedInvestigations
  stack,           \* the active exploreRelatedFiles calls, innermost last
  runs,            \* per file, the investigator.investigate calls started on it
  \* ---- synthesis parsing and verification: the input, fixed by Init
  vfCase,          \* the evidence of the Case handed to synthesis
  vfResponse,      \* the Reasoning Service's response text: what it states
  vfEnabled,       \* config.verifyFindings, read when deepDive reaches step 4
  \* ---- parseInvestigationResponse, then verifyFindings
  vfPc,            \* where the run is
  vfInvestigation, \* the InvestigationResult: confidence and sources
  vfReport,        \* the VerificationReport
  vfIssues,        \* selfCritique.issuesFound
  \* ---- buildTimeline: the input, fixed by Init, and the result
  tlCase,          \* the Case handed to synthesis, its evidence with dates
  tlPc,            \* where the run is
  tlTimeline,      \* InvestigationResult.timeline
  \* ---- WatchModeAgent
  isWatching,      \* this.isWatching
  pollTimer,       \* this.pollTimer: 0 (null) or the timer setTimeout returned
  timers,          \* the timers that are scheduled and have not fired
  polls,           \* the poll() calls suspended at an await
  starts,          \* the start() calls suspended at getLatestCommitHash
  wmCalls,         \* the start() and stop() calls made so far
  \* ---- ConflictResolverAgent.resolveAll on one conflicted file
  autoApply,       \* config.autoApply
  crFile,          \* the lines of the file on disk
  crConflicts,     \* conflicts, as parseConflictsInFile returned them
  crIdx,           \* position of the loop over conflicts
  crResolutions,   \* report.resolutions
  crPc             \* where resolveAll is

invVars == <<onUpdate, maxCalls, overlap, varied, currentCaseFile,
             caseFile, thoughtChain, pc, selHasRepo, issueNums, issueIdx,
             synthCase, attempt, result, outcome, events, cbRaised, envLog>>

ddVars == <<imports, cfgMaxDepth, cfgMaxFiles, ddPc, exploredFiles, tree,
            investigated, related, stack, runs>>

vfVars == <<vfCase, vfResponse, vfEnabled, vfPc, vfInvestigation, vfReport,
            vfIssues>>

tlVars == <<tlCase, tlPc, tlTimeline>>

wmVars == <<isWatching, pollTimer, timers, polls, starts, wmCalls>>

crVars == <<autoApply, crFile, crConflicts, crIdx, crResolutions, crPc>>

auxVars == <<tlVars, wmVars, crVars>>

vars == <<invVars, ddVars, vfVars, auxVars>>

\* ---------------------------------------------------------------- helpers
Min(a, b) == IF a < b THEN a ELSE b
Max(a, b) == IF a > b THEN a ELSE b

NoCase == [exists |-> FALSE, evidence |-> <<>>, signatures |-> <<>>,
           status |-> "investigating", completedAt |-> "null",
           confidence |-> 0, changes |-> 0]

\* investigate lines 54-63: the CaseFile a call creates
NewCaseFile == [exists |-> TRUE, evidence |-> <<>>, signatures |-> <<>>,
                status |-> "investigating", completedAt |-> "null",
                confidence |-> 0, changes |-> 0]

NoResult == [confidence |-> 0, fromCase |-> 0, thoughtChain |-> 0]

\* LeadDetectiveAgent line 92: the field's initial object. A signatures array
\* is named by the call whose resetThoughtChain created it (0: this one)
InitialChain == [cur |-> 0, arrays |-> [k \in 0..NumCalls |-> <<>>]]

ResetThoughtChainKeeping(tc, c) == tc

\* resetThoughtChain line 618, in call c: the field gets a new object with a
\* new, empty signatures array; the replaced array is left as it is
ResetThoughtChain(tc, c) ==
  [cur |-> c, arrays |-> [tc.arrays EXCEPT ![c] = <<>>]]

\* this.thoughtChain.signatures.push(thoughtSignature)
PushThoughtSignature(tc, sig) == [tc EXCEPT !.arrays[tc.cur] = Append(@, sig)]

\* extractThoughtSignature lines 591-604: the signature object it returns
\* (never null): the response's thoughtSignature when it carries one, else a
\* string made up from the clock and the step counter
ThoughtSignature(c, att, native) ==
  [call |-> c, attempt |-> att, native |-> native]

\* an Evidence item: its kind, its identifier (hash or number), the issue
\* numbers it carries (a pull request's linkedIssues, the "#n" references in
\* a commit's message), for a pull request whether its url names the
\* repository; "by" records the call whose step gathered it
Evidence(type, id, linked, urlOk, c) ==
  [type |-> type, id |-> id, linked |-> linked, urlOk |-> urlOk, by |-> c]

\* the commit hash git blame reports, the pull request's number
BlameHash == 1
PRNumber == 7

HasEvidenceAlways(cs, t) == TRUE

\* evidence.find(e => e.type === t) !== undefined
HasEvidence(cs, t) == \E i \in 1..Len(cs.evidence) : cs.evidence[i].type = t

\* evidence.find(e => e.type === t)
FindEvidence(cs, t) ==
  cs.evidence[CHOOSE i \in 1..Len(cs.evidence) :
                /\ cs.evidence[i].type = t
                /\ \A j \in 1..(i-1) : cs.evidence[j].type # t]

PushEvidenceReplacing(cf, k, item) == [cf EXCEPT ![k].evidence = <<item>>]

\* this.currentCaseFile.evidence.push(item)
PushEvidence(cf, k, item) == [cf EXCEPT ![k].evidence = Append(@, item)]

\* this.currentCaseFile.thoughtChain.signatures.push(sig)
PushSignature(cf, k, sig) == [cf EXCEPT ![k].signatures = Append(@, sig)]

\* an assignment to CaseFile.status; "changes" counts the assignments that
\* change its value
SetStatus(cf, k, s) ==
  [cf EXCEPT ![k].status = s,
             ![k].changes = IF cf[k].status = s THEN @ ELSE @ + 1]

\* emitUpdate: the callback is invoked only when one is installed; an
\* invocation may raise
RaiseChoices == IF onUpdate THEN BOOLEAN ELSE {FALSE}

\* a StreamUpdate: its phase and progress
StreamUpdate(phase, progress) == [phase |-> phase, progress |-> progress]

Emitted(ev, c, phase, progress) ==
  IF onUpdate
  THEN [ev EXCEPT ![c] = Append(@, StreamUpdate(phase, progress))] ELSE ev

\* outcomes of a History Provider / Code-Host lookup in this run
LookupOutcomes == IF varied THEN {"ok", "fail"} ELSE {"ok"}

\* one external call of call c: its kind, its argument (issue number, attempt)
\* and how it settled
Logged(log, c, kind, arg, out) ==
  [log EXCEPT ![c] = Append(@, [kind |-> kind, arg |-> arg, out |-> out])]

ParseConfidenceUnclamped(stated, hasEvidence) ==
  IF stated = NoMatch \/ stated = 0
  THEN (IF hasEvidence THEN 92 ELSE 65) ELSE stated

\* parseInvestigationResponse lines 350-363 and 377: the confidence of the result
ParseConfidence(stated, hasEvidence) ==
  LET matched == IF stated = NoMatch THEN 0 ELSE stated
      conf == IF matched = 0 THEN (IF hasEvidence THEN 92 ELSE 65) ELSE matched
  IN Min(100, Max(0, conf))

FailCaseNoStatus(cf, k) == cf

\* the catch block of investigate, line 97, on case k
FailCase(cf, k) == SetStatus(cf, k, "failed")

Overloaded(out) == out \in {"s503", "s429"}

\* what a response of the Reasoning Service states as confidence, and whether
\* it carries candidates[0].thoughtSignature
StatedChoices == IF varied THEN RespStated ELSE {85}
SignatureChoices == IF varied THEN BOOLEAN ELSE {TRUE}

\* the issue references in the message of the commit that getCommitInfo
\* returns: none, or "(#1)"
MessageRefChoices == IF varied THEN {<<>>, <<1>>} ELSE {<<>>}

\* the errors generateContent fails with, and whether the selection names
\* its repository
RSErrorChoices == IF varied THEN RSErrors ELSE {"s503", "s500"}
HasRepoChoices == IF varied THEN BOOLEAN ELSE {FALSE}

ShouldRetryAnyError(err, att) == att < MaxRetries - 1

\* LeadDetectiveAgent.investigate line 143: the condition of another attempt
ShouldRetry(err, att) == Overloaded(err) /\ att < MaxRetries - 1

StepTargetRethrow(out, next) == IF out = "fail" THEN "catch" ELSE next

\* the try/catch of the History Provider steps (gatherBlameData lines
\* 126-129, gatherCommitInfo 157-159, gatherFileHistory 270-272): a failed
\* lookup is logged and the pipeline goes on to the next step
StepTarget(out, next) == next

\* array.slice(0, n)
Slice(s, n) == SubSeq(s, 1, Min(Len(s), n))

\* Math.pow(2, attempt), in seconds
RECURSIVE Pow2(_)
Pow2(n) == IF n = 0 THEN 1 ELSE 2 * Pow2(n - 1)

\* ------------------------------------------------------------- Deep Dive
Files == 1..NumFiles

\* codeSelection.filePath, the target of the Deep Dive
Root == 1

\* deepDive lines 107-108: config.maxDepth || 3, config.maxFilesToExplore || 10
EffectiveMaxDepth == IF cfgMaxDepth = 0 THEN 3 ELSE cfgMaxDepth
EffectiveMaxFiles == IF cfgMaxFiles = 0 THEN 10 ELSE cfgMaxFiles

\* buildDependencyTree lines 416-424: the resolved import paths of a file, in
\* the order of its import statements
ImportsOf(f) == imports[f]

AlreadyExploredNever(file, explored) == FALSE

\* this.exploredFiles.has(file)
AlreadyExplored(file, explored) == file \in explored

\* buildDependencyTree lines 390-439: the nodes of the subtree built for
\* filePath, which is placed at `at` (the positions in children[] from the
\* root down); explored is this.exploredFiles
RECURSIVE BuildDependencyTree(_, _, _, _, _)
BuildDependencyTree(filePath, at, maxDepth, currentDepth, explored) ==
  LET node == [at |-> at, file |-> filePath]
      kept == SelectSeq(ImportsOf(filePath),
                        LAMBDA r : ~AlreadyExplored(r, explored))
  IN IF currentDepth >= maxDepth
     THEN {node}
     ELSE {node} \cup
          UNION {BuildDependencyTree(kept[i], Append(at, i), maxDepth,
                                     currentDepth + 1, explored) :
                   i \in 1..Len(kept)}

\* node.children of the node at `at`, in order
ChildrenOf(t, at) ==
  LET n == Cardinality({x \in t : Len(x.at) = Len(at) + 1
                                   /\ SubSeq(x.at, 1, Len(at)) = at})
  IN [i \in 1..n |-> CHOOSE x \in t : x.at = Append(at, i)]

\* the import lists of at most k entries
ImportSeqs(k) == UNION {[1..m -> Files] : m \in 0..k}

\* the import lists of the files 1..n, with at most k entries in all
RECURSIVE ImportLists(_, _)
ImportLists(n, k) ==
  IF n = 0 THEN {<<>>}
  ELSE UNION {{Append(rest, s) : rest \in ImportLists(n - 1, k - Len(s))} :
                s \in ImportSeqs(k)}

\* the files that discovery can reach from R along the import lists g
RECURSIVE ReachableFrom(_, _)
ReachableFrom(R, g) ==
  LET more == R \cup UNION {{g[f][i] : i \in 1..Len(g[f])} : f \in R}
  IN IF more = R THEN R ELSE ReachableFrom(more, g)

\* the repositories of n files: at most k resolvable imports, all in
\* files that discovery can reach from the target
ImportGraphs(n, k) ==
  {g \in ImportLists(n, k) :
     \A f \in (1..n) \ ReachableFrom({Root}, g) : g[f] = <<>>}

\* no Deep Dive in this run
DDIdle ==
  /\ imports = [f \in Files |-> <<>>]
  /\ cfgMaxDepth = 0
  /\ cfgMaxFiles = 0
  /\ ddPc = "off"
  /\ exploredFiles = {}
  /\ tree = {}
  /\ investigated = {}
  /\ related = {}
  /\ stack = <<>>
  /\ runs = [f \in Files |-> 0]

\* ---------------------------------------- synthesis parsing, verification
\* a commit hash, a pull-request number and an issue number that no Evidence
\* item of the Case carries
ForeignHash == 2
ForeignPR == 8
ForeignIssue == 9

\* what a response text can mention: a commit hash, in full or abbreviated
\* (7 to 40 hex digits), "PR #n", "issue #n" (the first linked issue or an
\* issue that is not in the Case)
Mentions ==
  {[kind |-> "commit", id |-> BlameHash, full |-> f] : f \in BOOLEAN}
  \cup {[kind |-> "commit", id |-> ForeignHash, full |-> FALSE]}
  \cup {[kind |-> "pr", id |-> n, full |-> TRUE] : n \in {PRNumber, ForeignPR}}
  \cup {[kind |-> "issue", id |-> n, full |-> TRUE] : n \in {1, ForeignIssue}}

\* a response text: the confidence it states and its mentions, in order
Responses ==
  [stated : RespStated,
   mentions : UNION {[1..m -> Mentions] : m \in 0..MaxMentions}]

\* Source.id: the matched hash text, `PR#${num}` or `Issue#${num}`
SourceId(m) == <<m.kind, m.id, m.full>>

\* a Source; url is pr.url or issue.url (urlOk: it is a non-empty string)
Source(m, urlOk) ==
  [type |-> m.kind, id |-> SourceId(m), number |-> m.id, urlOk |-> urlOk]

HasCommitAny(cs, m) == TRUE

\* extractSources lines 396-406: some commit or blame Evidence item's hash
\* starts with the mentioned text
HasCommit(cs, m) ==
  \E i \in 1..Len(cs.evidence) :
    /\ cs.evidence[i].type \in {"commit", "blame"}
    /\ cs.evidence[i].id = m.id

\* evidence.find(e => e.type === 'issue' && number === num)
FindIssue(cs, num) ==
  cs.evidence[CHOOSE i \in 1..Len(cs.evidence) :
                /\ cs.evidence[i].type = "issue" /\ cs.evidence[i].id = num
                /\ \A j \in 1..(i-1) :
                     ~(cs.evidence[j].type = "issue" /\ cs.evidence[j].id = num)]

HasIssue(cs, num) ==
  \E i \in 1..Len(cs.evidence) :
    cs.evidence[i].type = "issue" /\ cs.evidence[i].id = num

Listed(sources, id) == \E i \in 1..Len(sources) : sources[i].id = id

\* extractSources: what one match of a loop pushes onto sources (lines
\* 407-413 for a hash, 420-431 for a PR reference, 438-452 for an issue
\* reference)
Cited(m, cs, sources) ==
  IF m.kind = "commit"
  THEN IF HasCommit(cs, m) /\ ~Listed(sources, SourceId(m))
       THEN <<Source(m, FALSE)>> ELSE <<>>
  ELSE IF m.kind = "pr"
  THEN IF /\ HasEvidence(cs, "pr")
          /\ FindEvidence(cs, "pr").id = m.id
          /\ ~Listed(sources, SourceId(m))
       THEN <<Source(m, FindEvidence(cs, "pr").urlOk)>> ELSE <<>>
  ELSE IF HasIssue(cs, m.id)
       THEN <<Source(m, FindIssue(cs, m.id).urlOk)>> ELSE <<>>

\* one loop of extractSources over the matches of its pattern
RECURSIVE ScanMentions(_, _, _, _)
ScanMentions(kind, ms, cs, sources) ==
  IF ms = <<>> THEN sources
  ELSE ScanMentions(kind, Tail(ms), cs,
                    sources \o (IF Head(ms).kind = kind
                                THEN Cited(Head(ms), cs, sources) ELSE <<>>))

\* extractSources lines 388-456: commit references, then PR references, then
\* issue references
ExtractSources(response, cs) ==
  ScanMentions("issue", response.mentions, cs,
    ScanMentions("pr", response.mentions, cs,
      ScanMentions("commit", response.mentions, cs, <<>>)))

\* parseInvestigationResponse lines 327-383
ParseInvestigationResponse(response, cs) ==
  [confidence |-> ParseConfidence(response.stated, Len(cs.evidence) > 0),
   sources |-> ExtractSources(response, cs)]

\* the issue Evidence gatherIssueData can leave for linkedIssues 1..n
RECURSIVE IssueEvidence(_)
IssueEvidence(n) ==
  IF n = 0 THEN {<<>>}
  ELSE UNION {{s, Append(s, Evidence("issue", n, <<>>, TRUE, 1))} :
                s \in IssueEvidence(n - 1)}

\* the evidence lists the pipeline can hand to synthesis (investigate lines
\* 68-81) when the pull request links the issues 1..n, n <= MaxLinked:
\* blame; commit and pull request only after blame; issues only for a pull
\* request with a url; file history
CaseShapes ==
  LET blame == <<Evidence("blame", BlameHash, <<>>, FALSE, 1)>>
      commits == {<<>>, <<Evidence("commit", BlameHash, <<>>, FALSE, 1)>>}
      prs == {<<>>} \cup
             UNION {{<<Evidence("pr", PRNumber, [i \in 1..n |-> i], u, 1)>> \o iss :
                       iss \in IF u THEN IssueEvidence(Min(n, IssueLimit))
                               ELSE {<<>>}} :
                      n \in 0..MaxLinked, u \in BOOLEAN}
      heads == {<<>>} \cup {blame \o c \o p : c \in commits, p \in prs}
      tails == {<<>>, <<Evidence("file_history", 0, <<>>, FALSE, 1)>>}
  IN {[evidence |-> h \o t] : h \in heads, t \in tails}

NoInvestigation == [confidence |-> 0, sources |-> <<>>]

NoReport == [claimsVerified |-> 0, claimsFailed |-> 0, linksChecked |-> <<>>,
             overallConfidence |-> 0]

\* no synthesis parsing or verification in this run
VFIdle ==
  /\ vfCase = [evidence |-> <<>>]
  /\ vfResponse = [stated |-> NoMatch, mentions |-> <<>>]
  /\ vfEnabled = FALSE
  /\ vfPc = "off"
  /\ vfInvestigation = NoInvestigation
  /\ vfReport = NoReport
  /\ vfIssues = 0

\* no timeline is built in this run
TLIdle ==
  /\ tlCase = [evidence |-> <<>>]
  /\ tlPc = "off"
  /\ tlTimeline = <<>>

\* WatchModeAgent after construction (lines 61-63)
WMInit ==
  /\ isWatching = FALSE
  /\ pollTimer = 0
  /\ timers = {}
  /\ polls = 0
  /\ starts = 0
  /\ wmCalls = 0

\* no resolveAll in this run
CRIdle ==
  /\ autoApply = FALSE
  /\ crFile = <<>>
  /\ crConflicts = <<>>
  /\ crIdx = 0
  /\ crResolutions = <<>>
  /\ crPc = "off"

AuxIdle == TLIdle /\ WMInit /\ CRIdle

\* ------------------------------------------------------------------- Init
InvInit ==
  /\ currentCaseFile = 0
  /\ caseFile = [c \in Calls |-> NoCase]
  /\ thoughtChain = InitialChain
  /\ pc = [c \in Calls |-> "idle"]
  /\ selHasRepo = [c \in Calls |-> FALSE]
  /\ issueNums = [c \in Calls |-> <<>>]
  /\ issueIdx = [c \in Calls |-> 0]
  /\ synthCase = [c \in Calls |-> 0]
  /\ attempt = [c \in Calls |-> 0]
  /\ result = [c \in Calls |-> NoResult]
  /\ outcome = [c \in Calls |-> "none"]
  /\ events = [c \in Calls |-> <<>>]
  /\ cbRaised = [c \in Calls |-> FALSE]
  /\ envLog = [c \in Calls |-> <<>>]

\* one investigate call, every lookup outcome possible, with or without callback
Init ==
  /\ DDIdle
  /\ VFIdle
  /\ onUpdate \in BOOLEAN
  /\ maxCalls = 1
  /\ overlap = FALSE
  /\ varied = TRUE
  /\ InvInit
  /\ AuxIdle

\* ------------------------------------------------ frame updates of a call
Goto(c, label) == pc' = [pc EXCEPT ![c] = label]

Raised(c, r) == cbRaised' = [cbRaised EXCEPT ![c] = @ \/ r]

AbortSilently(c, cf, k, ev) ==
  /\ caseFile' = FailCase(cf, k)
  /\ events' = ev
  /\ outcome' = [outcome EXCEPT ![c] = "raised"]
  /\ Goto(c, "done")

\* the catch block of investigate run to its end: lines 96-99
Abort(c, cf, k, ev) ==
  /\ caseFile' = FailCase(cf, k)
  /\ events' = Emitted(ev, c, "failed", 0)
  /\ outcome' = [outcome EXCEPT ![c] = "raised"]
  /\ Goto(c, "done")

\* ---------------------------------------------------------------- actions
\* investigate lines 46-69 and gatherBlameData lines 107-114, up to the
\* await of historian.getBlame
Start(c) ==
  /\ pc[c] = "idle"
  /\ c <= maxCalls
  /\ \A d \in Calls : d < c => pc[d] # "idle"
  /\ overlap \/ \A d \in Calls : pc[d] \in {"idle", "done"}
  /\ \E hasRepo \in HasRepoChoices, r1 \in RaiseChoices, r2 \in RaiseChoices :
       LET cf == [caseFile EXCEPT ![c] = NewCaseFile]
           ev1 == Emitted(events, c, "initializing", 0)
       IN /\ selHasRepo' = [selHasRepo EXCEPT ![c] = hasRepo]
          /\ thoughtChain' = ResetThoughtChain(thoughtChain, c)
          /\ currentCaseFile' = c
          /\ IF r1
             THEN /\ Abort(c, cf, c, ev1)
                  /\ Raised(c, TRUE)
             ELSE /\ caseFile' = cf
                  /\ events' = Emitted(ev1, c, "analyzing_blame", 10)
                  /\ Raised(c, r2)
                  /\ Goto(c, IF r2 THEN "catch" ELSE "await_blame")
                  /\ UNCHANGED outcome
  /\ UNCHANGED <<ddVars, vfVars, auxVars, onUpdate, maxCalls, overlap, varied, issueNums, issueIdx,
                 synthCase, attempt, result, envLog>>

\* gatherBlameData lines 114-129: historian.getBlame settles
BlameDone(c) ==
  /\ pc[c] = "await_blame"
  /\ \E out \in LookupOutcomes :
       /\ caseFile' =
            IF out = "ok"
            THEN PushSignature(
                   PushEvidence(caseFile, currentCaseFile,
                                Evidence("blame", BlameHash, <<>>, FALSE, c)),
                   currentCaseFile, "historian")
            ELSE caseFile
       /\ envLog' = Logged(envLog, c, "blame", 0, out)
       /\ Goto(c, StepTarget(out, "commit"))
  /\ UNCHANGED <<ddVars, vfVars, auxVars, onUpdate, maxCalls, overlap, varied, currentCaseFile,
                 thoughtChain, selHasRepo, issueNums, issueIdx, synthCase,
                 attempt, result, outcome, events, cbRaised>>

\* gatherCommitInfo lines 135-145, up to the await of historian.getCommitInfo
GatherCommitInfo(c) ==
  /\ pc[c] = "commit"
  /\ \E r \in RaiseChoices :
       /\ events' = Emitted(events, c, "fetching_commits", 25)
       /\ Raised(c, r)
       /\ Goto(c, IF r THEN "catch"
                  ELSE IF HasEvidence(caseFile[currentCaseFile], "blame")
                       THEN "await_commit" ELSE "pr")
  /\ UNCHANGED <<ddVars, vfVars, auxVars, onUpdate, maxCalls, overlap, varied, currentCaseFile,
                 caseFile, thoughtChain, selHasRepo, issueNums, issueIdx,
                 synthCase, attempt, result, outcome, envLog>>

\* gatherCommitInfo lines 145-159: historian.getCommitInfo settles
CommitDone(c) ==
  /\ pc[c] = "await_commit"
  /\ \E out \in LookupOutcomes :
     \E refs \in IF out = "ok" THEN MessageRefChoices ELSE {<<>>} :
       /\ caseFile' =
            IF out = "ok"
            THEN PushSignature(
                   PushEvidence(caseFile, currentCaseFile,
                                Evidence("commit", BlameHash, refs, FALSE, c)),
                   currentCaseFile, "historian")
            ELSE caseFile
       /\ envLog' = Logged(envLog, c, "commit", 0, out)
       /\ Goto(c, StepTarget(out, "pr"))
  /\ UNCHANGED <<ddVars, vfVars, auxVars, onUpdate, maxCalls, overlap, varied, currentCaseFile,
                 thoughtChain, selHasRepo, issueNums, issueIdx, synthCase,
                 attempt, result, outcome, events, cbRaised>>

\* gatherPRData lines 184-193: owner and repo are known; up to the await of
\* archivist.findPRByCommit
SearchPRs(c) ==
  \E r \in RaiseChoices :
    /\ events' = Emitted(events, c, "searching_prs", 45)
    /\ Raised(c, r)
    /\ Goto(c, IF r THEN "catch" ELSE "await_pr")

\* gatherPRData lines 165-182, up to the await of historian.getRemoteInfo
GatherPRData(c) ==
  /\ pc[c] = "pr"
  /\ IF ~HasEvidence(caseFile[currentCaseFile], "blame")
     THEN Goto(c, "issue") /\ UNCHANGED <<events, cbRaised>>
     ELSE IF selHasRepo[c]
          THEN SearchPRs(c)
          ELSE Goto(c, "await_remote") /\ UNCHANGED <<events, cbRaised>>
  /\ UNCHANGED <<ddVars, vfVars, auxVars, onUpdate, maxCalls, overlap, varied, currentCaseFile,
                 caseFile, thoughtChain, selHasRepo, issueNums, issueIdx,
                 synthCase, attempt, result, outcome, envLog>>

\* gatherPRData lines 177-189: historian.getRemoteInfo settles (it returns
\* null on every error, watchMode.ts lines 723-730)
RemoteDone(c) ==
  /\ pc[c] = "await_remote"
  /\ \E out \in LookupOutcomes :
       /\ envLog' = Logged(envLog, c, "remote", 0, out)
       /\ IF out = "ok"
          THEN SearchPRs(c)
          ELSE Goto(c, "issue") /\ UNCHANGED <<events, cbRaised>>
  /\ UNCHANGED <<ddVars, vfVars, auxVars, onUpdate, maxCalls, overlap, varied, currentCaseFile,
                 caseFile, thoughtChain, selHasRepo, issueNums, issueIdx,
                 synthCase, attempt, result, outcome>>

\* the issue references of a pull request's body, in order: the number and
\* whether a closing keyword (fixes, closes, resolves) precedes it
Ref(n, closing) == [num |-> n, closing |-> closing]

\* "#1 #2 .. #n"
PlainRefs(n) == [i \in 1..n |-> Ref(i, FALSE)]

\* the bodies of this run's pull requests: up to MaxLinked plain references,
\* the same followed by "fixes #n", and one body with IssueLimit + 1
\* references
Bodies ==
  {PlainRefs(n) : n \in 0..MaxLinked}
  \cup {Append(PlainRefs(n), Ref(n, TRUE)) : n \in 1..MaxLinked}
  \cup {PlainRefs(IssueLimit + 1)}

IsClosing(r) == r.closing

Nums(refs) == [i \in 1..Len(refs) |-> refs[i].num]

Includes(s, x) == \E i \in 1..Len(s) : s[i] = x

\* extractLinkedIssues lines 600-608: the plain references not yet in matches
RECURSIVE AddPlain(_, _)
AddPlain(matches, nums) ==
  IF nums = <<>> THEN matches
  ELSE AddPlain(IF Includes(matches, Head(nums)) THEN matches
                ELSE Append(matches, Head(nums)),
                Tail(nums))

\* [...new Set(s)]: the first occurrence of each element, in order
RECURSIVE Distinct(_)
Distinct(s) ==
  IF s = <<>> THEN <<>>
  ELSE LET r == Distinct(SubSeq(s, 1, Len(s) - 1))
       IN IF Includes(r, s[Len(s)]) THEN r ELSE Append(r, s[Len(s)])

ExtractLinkedIssuesKeepAll(body) ==
  Nums(SelectSeq(body, IsClosing)) \o Nums(body)

\* extractLinkedIssues, part_003 lines 590-611
ExtractLinkedIssues(body) ==
  Distinct(AddPlain(Nums(SelectSeq(body, IsClosing)), Nums(body)))

\* what archivist.findPRByCommit can resolve to: a pull request with its
\* linkedIssues and url, or null data (none found, or an error it caught,
\* part_003 lines 335-392)
PRAnswers ==
  IF varied
  THEN {[out |-> "ok", linked |-> ExtractLinkedIssues(b), urlOk |-> u] :
          b \in Bodies, u \in BOOLEAN}
       \cup {[out |-> "none", linked |-> <<>>, urlOk |-> FALSE],
             [out |-> "fail", linked |-> <<>>, urlOk |-> FALSE]}
  ELSE {[out |-> "ok", linked |-> ExtractLinkedIssues(PlainRefs(1)),
         urlOk |-> TRUE]}

\* gatherPRData lines 193-209: archivist.findPRByCommit settles
PRDone(c) ==
  /\ pc[c] = "await_pr"
  /\ \E a \in PRAnswers :
       /\ caseFile' =
            PushSignature(
              IF a.out = "ok"
              THEN PushEvidence(caseFile, currentCaseFile,
                                Evidence("pr", PRNumber, a.linked, a.urlOk, c))
              ELSE caseFile,
              currentCaseFile, "archivist")
       /\ envLog' = Logged(envLog, c, "pr", 0, a.out)
  /\ Goto(c, "issue")
  /\ UNCHANGED <<ddVars, vfVars, auxVars, onUpdate, maxCalls, overlap, varied, currentCaseFile,
                 thoughtChain, selHasRepo, issueNums, issueIdx, synthCase,
                 attempt, result, outcome, events, cbRaised>>

\* gatherIssueData lines 215-234, up to the first await of archivist.getIssue
GatherIssueData(c) ==
  /\ pc[c] = "issue"
  /\ LET cs == caseFile[currentCaseFile] IN
     IF ~HasEvidence(cs, "pr") \/ FindEvidence(cs, "pr").linked = <<>>
     THEN /\ Goto(c, "history")
          /\ UNCHANGED <<events, cbRaised, issueNums, issueIdx>>
     ELSE \E r \in RaiseChoices :
            /\ events' = Emitted(events, c, "reading_issues", 60)
            /\ Raised(c, r)
            /\ IF r
               THEN Goto(c, "catch") /\ UNCHANGED <<issueNums, issueIdx>>
               ELSE IF ~FindEvidence(cs, "pr").urlOk
                    THEN Goto(c, "history") /\ UNCHANGED <<issueNums, issueIdx>>
                    ELSE /\ issueNums' = [issueNums EXCEPT ![c] =
                                Slice(FindEvidence(cs, "pr").linked, IssueLimit)]
                         /\ issueIdx' = [issueIdx EXCEPT ![c] = 1]
                         /\ Goto(c, "await_issue")
  /\ UNCHANGED <<ddVars, vfVars, auxVars, onUpdate, maxCalls, overlap, varied, currentCaseFile,
                 caseFile, thoughtChain, selHasRepo, synthCase, attempt,
                 result, outcome, envLog>>

\* gatherIssueData lines 233-247: archivist.getIssue settles for the
\* issueIdx-th linked issue (null data when not found or on an error it
\* caught, part_003 lines 498-538)
IssueDone(c) ==
  /\ pc[c] = "await_issue"
  /\ \E out \in LookupOutcomes :
       /\ caseFile' =
            IF out = "ok"
            THEN PushEvidence(caseFile, currentCaseFile,
                              Evidence("issue", issueNums[c][issueIdx[c]],
                                       <<>>, TRUE, c))
            ELSE caseFile
       /\ envLog' = Logged(envLog, c, "issue", issueNums[c][issueIdx[c]], out)
  /\ IF issueIdx[c] < Len(issueNums[c])
     THEN /\ issueIdx' = [issueIdx EXCEPT ![c] = @ + 1]
          /\ UNCHANGED pc
     ELSE /\ Goto(c, "history")
          /\ UNCHANGED issueIdx
  /\ UNCHANGED <<ddVars, vfVars, auxVars, onUpdate, maxCalls, overlap, varied, currentCaseFile,
                 thoughtChain, selHasRepo, issueNums, synthCase, attempt, result,
                 outcome, events, cbRaised>>

\* gatherFileHistory lines 253-262, up to the await of historian.getFileHistory
GatherFileHistory(c) ==
  /\ pc[c] = "history"
  /\ \E r \in RaiseChoices :
       /\ events' = Emitted(events, c, "fetching_commits", 70)
       /\ Raised(c, r)
       /\ Goto(c, IF r THEN "catch" ELSE "await_history")
  /\ UNCHANGED <<ddVars, vfVars, auxVars, onUpdate, maxCalls, overlap, varied, currentCaseFile,
                 caseFile, thoughtChain, selHasRepo, issueNums, issueIdx,
                 synthCase, attempt, result, outcome, envLog>>

\* gatherFileHistory lines 259-272: historian.getFileHistory settles
HistoryDone(c) ==
  /\ pc[c] = "await_history"
  /\ \E out \in LookupOutcomes :
       /\ caseFile' =
            IF out = "ok"
            THEN PushEvidence(caseFile, currentCaseFile,
                              Evidence("file_history", 0, <<>>, FALSE, c))
            ELSE caseFile
       /\ envLog' = Logged(envLog, c, "file_history", 0, out)
       /\ Goto(c, StepTarget(out, "synth"))
  /\ UNCHANGED <<ddVars, vfVars, auxVars, onUpdate, maxCalls, overlap, varied, currentCaseFile,
                 thoughtChain, selHasRepo, issueNums, issueIdx, synthCase,
                 attempt, result, outcome, events, cbRaised>>

\* investigate lines 84-86 and LeadDetectiveAgent.investigate lines 109-118,
\* up to the await of the first generateContent
Synthesize(c) ==
  /\ pc[c] = "synth"
  /\ \E r \in RaiseChoices :
       LET ev == Emitted(events, c, "synthesizing", 80) IN
       /\ Raised(c, r)
       /\ IF r
          THEN /\ Abort(c, caseFile, currentCaseFile, ev)
               /\ UNCHANGED <<synthCase, attempt>>
          ELSE /\ events' = ev
               /\ synthCase' = [synthCase EXCEPT ![c] = currentCaseFile]
               /\ attempt' = [attempt EXCEPT ![c] = 0]
               /\ Goto(c, "await_rs")
               /\ UNCHANGED <<caseFile, outcome>>
  /\ UNCHANGED <<ddVars, vfVars, auxVars, onUpdate, maxCalls, overlap, varied, currentCaseFile,
                 thoughtChain, selHasRepo, issueNums, issueIdx, result, envLog>>

\* LeadDetectiveAgent.investigate lines 118-152: generateContent settles
RSDone(c) ==
  /\ pc[c] = "await_rs"
  /\ \/ \E stated \in StatedChoices, sig \in SignatureChoices :
          LET chain == PushThoughtSignature(thoughtChain,
                         ThoughtSignature(c, attempt[c], sig))
          IN /\ thoughtChain' = chain
             /\ result' = [result EXCEPT ![c] =
                  [confidence |->
                     ParseConfidence(stated,
                                     Len(caseFile[synthCase[c]].evidence) > 0),
                   fromCase |-> synthCase[c],
                   thoughtChain |-> chain.cur]]
             /\ envLog' = Logged(envLog, c, "rs", attempt[c], "ok")
             /\ Goto(c, "finish")
     \/ \E err \in RSErrorChoices :
          /\ envLog' = Logged(envLog, c, "rs", attempt[c], err)
          /\ Goto(c, IF ShouldRetry(err, attempt[c])
                     THEN "await_delay" ELSE "catch")
          /\ UNCHANGED <<thoughtChain, result>>
  /\ UNCHANGED <<ddVars, vfVars, auxVars, onUpdate, maxCalls, overlap, varied, currentCaseFile,
                 caseFile, selHasRepo, issueNums, issueIdx, synthCase, attempt,
                 outcome, events, cbRaised>>

\* LeadDetectiveAgent.investigate lines 144-147 and 116-118: the backoff
\* timer fires and the next attempt is issued
DelayDone(c) ==
  /\ pc[c] = "await_delay"
  /\ envLog' = Logged(envLog, c, "delay", Pow2(attempt[c]), "ok")
  /\ attempt' = [attempt EXCEPT ![c] = @ + 1]
  /\ Goto(c, IF attempt[c] + 1 < MaxRetries THEN "await_rs" ELSE "catch")
  /\ UNCHANGED <<ddVars, vfVars, auxVars, onUpdate, maxCalls, overlap, varied, currentCaseFile,
                 caseFile, thoughtChain, selHasRepo, issueNums, issueIdx,
                 synthCase, result, outcome, events, cbRaised>>

\* investigate lines 86-95: synthesis returned its result
Finish(c) ==
  /\ pc[c] = "finish"
  /\ \E r \in RaiseChoices :
       LET k == currentCaseFile
           cf == [SetStatus(caseFile, k, "completed") EXCEPT
                    ![k].completedAt = "date",
                    ![k].confidence = result[c].confidence,
                    ![k].signatures =
                       thoughtChain.arrays[result[c].thoughtChain]]
           ev == Emitted(events, c, "completed", 100)
       IN /\ Raised(c, r)
          /\ IF r
             THEN Abort(c, cf, k, ev)
             ELSE /\ caseFile' = cf
                  /\ events' = ev
                  /\ outcome' = [outcome EXCEPT ![c] = "returned"]
                  /\ Goto(c, "done")
  /\ UNCHANGED <<ddVars, vfVars, auxVars, onUpdate, maxCalls, overlap, varied, currentCaseFile,
                 thoughtChain, selHasRepo, issueNums, issueIdx, synthCase,
                 attempt, result, envLog>>

\* investigate lines 96-100: an error thrown by a step or by synthesis
\* reaches the catch block
Catch(c) ==
  /\ pc[c] = "catch"
  /\ \E r \in RaiseChoices :
       /\ Raised(c, r)
       /\ Abort(c, caseFile, currentCaseFile, events)
  /\ UNCHANGED <<ddVars, vfVars, auxVars, onUpdate, maxCalls, overlap, varied, currentCaseFile,
                 thoughtChain, selHasRepo, issueNums, issueIdx, synthCase,
                 attempt, result, envLog>>

Next ==
  \E c \in Calls :
    \/ Start(c)
    \/ BlameDone(c)
    \/ GatherCommitInfo(c)
    \/ CommitDone(c)
    \/ GatherPRData(c)
    \/ RemoteDone(c)
    \/ PRDone(c)
    \/ GatherIssueData(c)
    \/ IssueDone(c)
    \/ GatherFileHistory(c)
    \/ HistoryDone(c)
    \/ Synthesize(c)
    \/ RSDone(c)
    \/ DelayDone(c)
    \/ Finish(c)
    \/ Catch(c)

Spec == Init /\ [][Next]_vars

\* several investigate calls on one instance, one after the other, with a
\* callback installed; the lookups succeed, the Reasoning Service may fail
InitSeq ==
  /\ DDIdle
  /\ VFIdle
  /\ onUpdate = TRUE
  /\ maxCalls = NumCalls
  /\ overlap = FALSE
  /\ varied = FALSE
  /\ InvInit
  /\ AuxIdle

SpecSeq == InitSeq /\ [][Next]_vars

\* several investigate calls on one instance, a call starting while another
\* is suspended at an await; no callback, the lookups succeed
InitConc ==
  /\ DDIdle
  /\ VFIdle
  /\ onUpdate = FALSE
  /\ maxCalls = NumCalls
  /\ overlap = TRUE
  /\ varied = FALSE
  /\ InvInit
  /\ AuxIdle

SpecConc == InitConc /\ [][Next]_vars

\* ------------------------------------------------------------ observations
IsRs(e) == e.kind = "rs"
IsLookup(e) == e.kind \in {"blame", "commit", "remote", "pr", "issue", "file_history"}

\* the Reasoning Service calls of call c that have settled, in order
RsLog(c) == SelectSeq(envLog[c], IsRs)

\* the Reasoning Service calls issued by call c
RsCalls(c) == Len(RsLog(c)) + (IF pc[c] = "await_rs" THEN 1 ELSE 0)

LastRs(c) == RsLog(c)[Len(RsLog(c))].out

\* synthesis of call c ended in a terminal failure
SynthesisFailed(c) ==
  /\ Len(RsLog(c)) > 0
  /\ \/ LastRs(c) = "s500"
     \/ Overloaded(LastRs(c)) /\ Len(RsLog(c)) = MaxRetries

Ended(c) == pc[c] \in {"catch", "done"}

\* C2: one synthesis calls the Reasoning Service at most 3 times; an attempt
\* other than the first follows an overload or rate-limit failure (503, 429)
\* only; any other failure ends synthesis at once; an overload on the third
\* attempt ends synthesis with an error instead of another attempt.
C2_RetryBound ==
  \A c \in Calls :
    /\ RsCalls(c) <= MaxRetries
    /\ \A i \in 1..Len(RsLog(c)) :
         /\ i < RsCalls(c) => Overloaded(RsLog(c)[i].out)
         /\ RsLog(c)[i].out = "s500" => i = RsCalls(c) /\ Ended(c)
         /\ i = MaxRetries /\ Overloaded(RsLog(c)[i].out) => Ended(c)
    /\ Ended(c) /\ SynthesisFailed(c) /\ pc[c] = "done" => outcome[c] = "raised"

\* three overloads in a row: the third one ended the call with an error
C2_Witness ==
  \E c \in Calls :
    /\ pc[c] = "done"
    /\ Len(RsLog(c)) = MaxRetries
    /\ LastRs(c) = "s429"
    /\ RsLog(c)[1].out = "s503"
    /\ outcome[c] = "raised"

\* C3: whatever lookups fail (all of them included), investigate reaches
\* synthesis, and when the Reasoning Service then answers, the call returns
\* a result and its Case is 'completed' (the progress callback not raising).
C3_LookupFailuresTolerated ==
  \A c \in Calls :
    ~cbRaised[c] =>
      /\ Ended(c) => RsCalls(c) >= 1
      /\ pc[c] = "done" /\ Len(RsLog(c)) > 0 /\ LastRs(c) = "ok" =>
           /\ outcome[c] = "returned"
           /\ caseFile[c].status = "completed"

FailedLookups(c) ==
  {envLog[c][i].kind : i \in {j \in 1..Len(envLog[c]) :
                                 IsLookup(envLog[c][j]) /\ envLog[c][j].out = "fail"}}

\* blame and file history failed, no evidence at all, and the call returned
C3_Witness ==
  \E c \in Calls :
    /\ pc[c] = "done"
    /\ {"blame", "file_history"} \subseteq FailedLookups(c)
    /\ caseFile[c].evidence = <<>>
    /\ outcome[c] = "returned"
    /\ caseFile[c].status = "completed"

\* a pull-request lookup and an issue lookup failed after blame succeeded
C3_WitnessPartial ==
  \E c \in Calls :
    /\ pc[c] = "done"
    /\ "issue" \in FailedLookups(c)
    /\ "commit" \in FailedLookups(c)
    /\ outcome[c] = "returned"

\* C4: a terminal failure of synthesis makes investigate raise, return no
\* result and leave the Case 'failed'; the caller never has a result with a
\* 'failed' Case nor an error with a 'completed' Case.
C4_FatalFailure ==
  \A c \in Calls :
    pc[c] = "done" =>
      /\ SynthesisFailed(c) =>
           /\ outcome[c] = "raised"
           /\ result[c] = NoResult
           /\ caseFile[c].status = "failed"
      /\ outcome[c] = "returned" => caseFile[c].status = "completed"
      /\ outcome[c] = "raised" => caseFile[c].status = "failed"

\* a non-overload error on the second attempt ended the call
C4_Witness ==
  \E c \in Calls :
    /\ pc[c] = "done"
    /\ Len(RsLog(c)) = 2
    /\ LastRs(c) = "s500"
    /\ outcome[c] = "raised"
    /\ caseFile[c].status = "failed"

\* C5: every investigate call finalizes its Case exactly once: the status
\* leaves 'investigating' once, completedAt and confidence are set at that
\* moment, and the status never changes afterwards.
C5_FinalizedOnce ==
  \A c \in Calls :
    /\ pc[c] = "done" => caseFile[c].status # "investigating"
    /\ caseFile[c].status # "investigating" =>
         /\ caseFile[c].completedAt = "date"
         /\ caseFile[c].changes = 1

\* C6: when a second investigate call starts on the instance while the first
\* is suspended, every evidence item gathered by a call's steps is appended to
\* that call's own Case, and each result is synthesized from the call's own
\* Case.
C6_CasesIsolated ==
  /\ \A k \in Calls : \A i \in 1..Len(caseFile[k].evidence) :
       caseFile[k].evidence[i].by = k
  /\ \A c \in Calls : result[c].fromCase \in {0, c}

\* the kinds and identifiers of the evidence of Case k, in order
EvidenceKeys(k) ==
  [i \in 1..Len(caseFile[k].evidence) |->
     <<caseFile[k].evidence[i].type, caseFile[k].evidence[i].id>>]

IsPrefix(s, t) == Len(s) <= Len(t) /\ \A i \in 1..Len(s) : s[i] = t[i]

\* C7: the progress callback has no influence: a call whose callback raised
\* ends with the evidence, Case status and outcome of a call on the same
\* selection whose external calls settled the same way and whose callback
\* did nothing (which emitUpdate makes the same as no callback installed).
C7_CallbackNoInfluence ==
  \A c, d \in Calls :
    /\ pc[c] = "done" /\ pc[d] = "done"
    /\ ~cbRaised[d]
    /\ selHasRepo[c] = selHasRepo[d]
    /\ IsPrefix(envLog[c], envLog[d])
    => /\ EvidenceKeys(c) = EvidenceKeys(d)
       /\ caseFile[c].status = caseFile[d].status
       /\ outcome[c] = outcome[d]

\* the same comparison between two calls whose callbacks never raised
C7_QuietCallsAgree ==
  \A c, d \in Calls :
    /\ pc[c] = "done" /\ pc[d] = "done"
    /\ ~cbRaised[c] /\ ~cbRaised[d]
    /\ selHasRepo[c] = selHasRepo[d]
    /\ IsPrefix(envLog[c], envLog[d])
    => /\ EvidenceKeys(c) = EvidenceKeys(d)
       /\ caseFile[c].status = caseFile[d].status
       /\ outcome[c] = outcome[d]

\* --------------------------------------------------------------- deepDive
\* a Deep Dive on a repository with some import graph and some configuration
InitDD ==
  /\ VFIdle
  /\ onUpdate = FALSE
  /\ maxCalls = 0
  /\ overlap = FALSE
  /\ varied = FALSE
  /\ InvInit
  /\ AuxIdle
  /\ imports \in ImportGraphs(NumFiles, MaxEdges)
  /\ cfgMaxDepth \in 0..MaxDepthCfg
  /\ cfgMaxFiles \in 0..MaxFilesCfg
  /\ ddPc = "idle"
  /\ exploredFiles = {}
  /\ tree = {}
  /\ investigated = {}
  /\ related = {}
  /\ stack = <<>>
  /\ runs = [f \in Files |-> 0]

\* investigateFile lines 537-548: the path is recorded as explored and a new
\* Investigator's investigate is started on it
InvestigateFileStarted(f) ==
  /\ exploredFiles' = exploredFiles \cup {f}
  /\ runs' = [runs EXCEPT ![f] = @ + 1]

\* deepDive lines 102-142: reset, then discovery
DeepDiveStart ==
  /\ ddPc = "idle"
  /\ exploredFiles' = {}
  /\ tree' = BuildDependencyTree(Root, <<>>, EffectiveMaxDepth, 0, {})
  /\ ddPc' = "main"
  /\ UNCHANGED <<invVars, vfVars, auxVars, imports, cfgMaxDepth, cfgMaxFiles, investigated,
                 related, stack, runs>>

\* deepDive lines 160-175: the target is investigated; its failure is not
\* caught; then exploreRelatedFiles is called on the root with maxFiles - 1
InvestigateMain ==
  /\ ddPc = "main"
  /\ InvestigateFileStarted(Root)
  /\ \E ok \in BOOLEAN :
       IF ok
       THEN /\ stack' = <<[at |-> <<>>, idx |-> 1,
                           remaining |-> EffectiveMaxFiles - 1]>>
            /\ ddPc' = "explore"
       ELSE /\ ddPc' = "failed"
            /\ UNCHANGED stack
  /\ UNCHANGED <<invVars, vfVars, auxVars, imports, cfgMaxDepth, cfgMaxFiles, tree,
                 investigated, related>>

Top == stack[Len(stack)]

TopChildren == ChildrenOf(tree, Top.at)

\* the frame on top with its loop moved to the next child
Advanced(rem) ==
  [stack EXCEPT ![Len(stack)] = [at |-> Top.at, idx |-> Top.idx + 1,
                                 remaining |-> rem]]

\* exploreRelatedFiles lines 478, 480-481: no budget left or no child left:
\* the call returns to its caller
ExploreReturn ==
  /\ ddPc = "explore"
  /\ Top.remaining <= 0 \/ Top.idx > Len(TopChildren)
  /\ stack' = SubSeq(stack, 1, Len(stack) - 1)
  /\ ddPc' = IF Len(stack) = 1 THEN "finish" ELSE "explore"
  /\ UNCHANGED <<invVars, vfVars, auxVars, imports, cfgMaxDepth, cfgMaxFiles, exploredFiles,
                 tree, investigated, related, runs>>

\* exploreRelatedFiles line 482: a child whose file is explored is passed over
ExploreSkip ==
  /\ ddPc = "explore"
  /\ Top.remaining > 0 /\ Top.idx <= Len(TopChildren)
  /\ AlreadyExplored(TopChildren[Top.idx].file, exploredFiles)
  /\ stack' = Advanced(Top.remaining)
  /\ UNCHANGED <<invVars, vfVars, auxVars, imports, cfgMaxDepth, cfgMaxFiles, ddPc,
                 exploredFiles, tree, investigated, related, runs>>

AfterChildRethrow(out) == IF out = "fail" THEN "failed" ELSE "explore"

\* exploreRelatedFiles lines 493 and 524-526: whatever the try block threw is
\* caught and the loop goes on
AfterChild(out) == "explore"

\* exploreRelatedFiles lines 484-526: the next child is read and investigated;
\* after a successful investigation the call recurses into the child with its
\* own remaining, less one
ExploreChild ==
  /\ ddPc = "explore"
  /\ Top.remaining > 0 /\ Top.idx <= Len(TopChildren)
  /\ ~AlreadyExplored(TopChildren[Top.idx].file, exploredFiles)
  /\ LET child == TopChildren[Top.idx] IN
     \E out \in {"ok", "fail", "unreadable"} :
       /\ IF out = "unreadable"
          THEN UNCHANGED <<exploredFiles, runs>>
          ELSE InvestigateFileStarted(child.file)
       /\ IF out = "ok"
          THEN /\ related' = related \cup {child.file}
               /\ investigated' = investigated \cup {child.at}
               /\ stack' = Append(Advanced(Top.remaining - 1),
                                  [at |-> child.at, idx |-> 1,
                                   remaining |-> Top.remaining - 1])
          ELSE /\ stack' = Advanced(Top.remaining)
               /\ UNCHANGED <<related, investigated>>
       /\ ddPc' = AfterChild(out)
  /\ UNCHANGED <<invVars, vfVars, auxVars, imports, cfgMaxDepth, cfgMaxFiles, tree>>

\* deepDive lines 177-230: the result is assembled
DeepDiveFinish ==
  /\ ddPc = "finish"
  /\ ddPc' = "done"
  /\ UNCHANGED <<invVars, vfVars, auxVars, imports, cfgMaxDepth, cfgMaxFiles, exploredFiles,
                 tree, investigated, related, stack, runs>>

NextDD ==
  \/ DeepDiveStart
  \/ InvestigateMain
  \/ ExploreReturn
  \/ ExploreSkip
  \/ ExploreChild
  \/ DeepDiveFinish

SpecDD == InitDD /\ [][NextDD]_vars

\* the files other than the target on which the pipeline was started
RunNonRoot == {f \in Files \ {Root} : runs[f] > 0}

\* C1: with maxFiles = N >= 1 the investigation pipeline is run on at most
\* N - 1 distinct files other than the target, whatever the dependency tree.
C1_ExplorationBudget ==
  cfgMaxFiles >= 1 => Cardinality(RunNonRoot) <= cfgMaxFiles - 1

\* the same bound on the related files whose investigation succeeded
C1_BudgetOfSuccesses ==
  cfgMaxFiles >= 1 => Cardinality(related) <= cfgMaxFiles - 1

\* C8: for every configured maxDepth >= 0, no node of the dependency tree is
\* deeper than the configured maxDepth.
C8_DepthBound ==
  \A n \in tree : Len(n.at) <= cfgMaxDepth

\* the depth bound for the configured values other than 0
C8_DepthBoundPositive ==
  cfgMaxDepth >= 1 => \A n \in tree : Len(n.at) <= cfgMaxDepth

\* C9: within one Deep Dive the investigation pipeline is started at most
\* once for any file path, the target and the files reachable along several
\* import paths or import cycles included.
C9_InvestigatedOnce ==
  \A f \in Files : runs[f] <= 1

\* a finished run in which a file investigated once labels two nodes and the
\* target is imported back by a file of the tree
C9_Witness ==
  /\ ddPc = "done"
  /\ \E n1, n2 \in tree : n1 # n2 /\ n1.file = n2.file /\ n1.file # Root
                          /\ runs[n1.file] = 1
  /\ \E n \in tree : n.at # <<>> /\ n.file = Root
  /\ runs[Root] = 1

\* C10: no file path labels more than one node of the dependency tree.
C10_TreeFilesDistinct ==
  \A n1, n2 \in tree : n1.file = n2.file => n1 = n2

\* ------------------------------------- parseInvestigationResponse, verify
\* the main investigation of a Deep Dive from the moment the Reasoning
\* Service has answered: some Case, some response text
InitVF ==
  /\ onUpdate = FALSE
  /\ maxCalls = 0
  /\ overlap = FALSE
  /\ varied = FALSE
  /\ InvInit
  /\ AuxIdle
  /\ DDIdle
  /\ vfCase \in CaseShapes
  /\ vfResponse \in Responses
  /\ vfEnabled = FALSE
  /\ vfPc = "parse"
  /\ vfInvestigation = NoInvestigation
  /\ vfReport = NoReport
  /\ vfIssues = 0

\* LeadDetectiveAgent.investigate line 137: the response is parsed
ParseResponse ==
  /\ vfPc = "parse"
  /\ vfInvestigation' = ParseInvestigationResponse(vfResponse, vfCase)
  /\ vfPc' = "verify"
  /\ UNCHANGED <<invVars, ddVars, auxVars, vfCase, vfResponse, vfEnabled, vfReport,
                 vfIssues>>

RescaledTruncated(c, k, m) == (c * k) \div m

\* Math.round(confidence * (claimsVerified / linksChecked.length))
Rescaled(c, k, m) == (2 * c * k + m) \div (2 * m)

\* verifyFindings lines 587-590, after the loop over the sources
RatioApplied(rep, c) ==
  IF Len(rep.linksChecked) > 0
  THEN [rep EXCEPT !.overallConfidence =
          Rescaled(c, rep.claimsVerified, Len(rep.linksChecked))]
  ELSE rep

\* deepDive lines 178-195 and verifyFindings lines 567-576, up to the first
\* await (verifySource, or performSelfCritique when there is no source)
VerifyFindings ==
  /\ vfPc = "verify"
  /\ vfReport' = [NoReport EXCEPT
                    !.overallConfidence = vfInvestigation.confidence]
  /\ \E enabled \in BOOLEAN :
       /\ vfEnabled' = enabled
       /\ vfPc' = IF ~enabled THEN "done"
                  ELSE IF Len(vfInvestigation.sources) > 0 THEN "source"
                  ELSE "critique"
  /\ UNCHANGED <<invVars, ddVars, auxVars, vfCase, vfResponse, vfInvestigation,
                 vfIssues>>

\* how historian.getCommitInfo settles for a commit citation; no lookup is
\* made for the other citations
CommitLookups(source) ==
  IF source.type = "commit" THEN {"ok", "fail"} ELSE {"none"}

\* verifySource lines 617-641: the verified flag of the VerifiedLink
Verified(source, out) ==
  IF source.type = "commit" THEN out = "ok"
  ELSE IF source.type = "pr" /\ source.urlOk THEN source.urlOk
  ELSE IF source.type = "issue" /\ source.urlOk THEN source.urlOk
  ELSE TRUE

VerifyTargetRethrow(out, next) == IF out = "fail" THEN "failed" ELSE next

\* verifySource lines 621-626: a failed lookup is caught where it is made
\* and verifyFindings goes on
VerifyTarget(out, next) == next

\* verifySource for the next source, and verifyFindings lines 577-590
VerifySource ==
  /\ vfPc = "source"
  /\ LET source == vfInvestigation.sources[Len(vfReport.linksChecked) + 1] IN
     \E out \in CommitLookups(source) :
       LET v == Verified(source, out)
           rep == [vfReport EXCEPT
                     !.linksChecked = Append(@, [type |-> source.type,
                                                 id |-> source.id,
                                                 lookup |-> out,
                                                 verified |-> v]),
                     !.claimsVerified = IF v THEN @ + 1 ELSE @,
                     !.claimsFailed = IF v THEN @ ELSE @ + 1]
           last == Len(rep.linksChecked) = Len(vfInvestigation.sources)
       IN /\ vfReport' = IF last
                         THEN RatioApplied(rep, vfInvestigation.confidence)
                         ELSE rep
          /\ vfPc' = VerifyTarget(out, IF last THEN "critique" ELSE "source")
  /\ UNCHANGED <<invVars, ddVars, auxVars, vfCase, vfResponse, vfEnabled,
                 vfInvestigation, vfIssues>>

\* performSelfCritique lines 652-694: the issuesFound of the critique, 0
\* when the call or the parsing of its answer fails
IssuesFoundChoices == 0..MaxIssuesFound

\* verifyFindings lines 596-601
Penalised(overall, issuesFound) ==
  IF issuesFound > 0 THEN Max(0, overall - issuesFound * 5) ELSE overall

\* verifyFindings lines 593-603: performSelfCritique settles
PerformSelfCritique ==
  /\ vfPc = "critique"
  /\ \E i \in IssuesFoundChoices :
       /\ vfIssues' = i
       /\ vfReport' = [vfReport EXCEPT
                         !.overallConfidence = Penalised(@, i)]
  /\ vfPc' = "done"
  /\ UNCHANGED <<invVars, ddVars, auxVars, vfCase, vfResponse, vfEnabled,
                 vfInvestigation>>

NextVF ==
  \/ ParseResponse
  \/ VerifyFindings
  \/ VerifySource
  \/ PerformSelfCritique

SpecVF == InitVF /\ [][NextVF]_vars

\* the parsed result and the Case it was parsed against
Sources == vfInvestigation.sources

Parsed == vfPc # "parse"

\* an Evidence item of kind t with identifier n is in the Case
InCase(t, n) ==
  \E j \in 1..Len(vfCase.evidence) :
    vfCase.evidence[j].type = t /\ vfCase.evidence[j].id = n

\* the claim as first stated: every Source has the kind and identifier of an
\* Evidence item of the Case
C11_SourceKindInCase ==
  \A i \in 1..Len(Sources) : InCase(Sources[i].type, Sources[i].number)

\* C11: every Source has the identifier of an Evidence item of the Case it
\* was synthesized from, of the Source's kind or, for a commit Source, of
\* kind commit or blame (the blamed commit's hash); a commit hash, PR number
\* or issue number that the response mentions but that matches no Evidence
\* item never becomes a Source.
C11_CitationIntegrity ==
  /\ \A i \in 1..Len(Sources) :
       \/ InCase(Sources[i].type, Sources[i].number)
       \/ Sources[i].type = "commit" /\ InCase("blame", Sources[i].number)
  /\ Parsed =>
       \A k \in 1..Len(vfResponse.mentions) :
         LET m == vfResponse.mentions[k] IN
         ~(InCase(m.kind, m.id) \/ (m.kind = "commit" /\ InCase("blame", m.id)))
           => ~Listed(Sources, SourceId(m))

\* a response citing the pull request of the Case and a commit hash the Case
\* does not have: only the pull request became a Source
C11_Witness ==
  /\ Parsed
  /\ \E k \in 1..Len(vfResponse.mentions) :
       vfResponse.mentions[k].kind = "commit"
       /\ vfResponse.mentions[k].id = ForeignHash
  /\ HasCommit(vfCase, [id |-> BlameHash])
  /\ Len(Sources) = 1
  /\ Sources[1].type = "pr"

\* the runs of the orchestrator together with the runs of parsing and
\* verification
InitAll == Init \/ InitVF

NextAll == Next \/ NextVF

SpecAll == InitAll /\ [][NextAll]_vars

\* C12: every stored confidence lies in [0,100], whatever the Reasoning
\* Service's response states and however verification turns out: the
\* result's confidence, the Case's confidence and the verification report's
\* overall confidence.
C12_ConfidenceInRange ==
  /\ \A c \in Calls : /\ result[c].confidence \in 0..100
                      /\ caseFile[c].confidence \in 0..100
  /\ vfInvestigation.confidence \in 0..100
  /\ vfReport.overallConfidence \in 0..100

\* a response stating 250: the result holds 100, and the report, with every
\* citation verified and two issues found, holds 90
C12_Witness ==
  /\ vfPc = "done"
  /\ vfResponse.stated = 250
  /\ vfInvestigation.confidence = 100
  /\ Len(vfReport.linksChecked) > 0
  /\ vfIssues = 2
  /\ vfReport.overallConfidence = 90

\* a call whose response stated 250 returned: its Case holds 100
C12_WitnessCase ==
  \E c \in Calls : outcome[c] = "returned" /\ caseFile[c].confidence = 100

\* verifyFindings has returned its report
Verification == vfPc = "done" /\ vfEnabled

\* the integer nearest to c * k / m, halves upwards
Nearest(c, k, m) ==
  CHOOSE x \in 0..c : 2 * m * x <= 2 * c * k + m /\ 2 * c * k + m < 2 * m * (x + 1)

C13_WitnessFloor ==
  /\ Verification
  /\ Len(Sources) > 0
  /\ vfReport.claimsVerified = 0
  /\ vfIssues = 2
  /\ vfReport.overallConfidence = 0

Links == vfReport.linksChecked

\* C14: a commit citation is marked verified exactly when the History
\* Provider resolves its hash, and a pull-request or issue citation exactly
\* when it carries a non-empty URL; one without a URL is marked unverified.
C14_VerifiedExactly ==
  \A i \in 1..Len(Links) :
    Links[i].verified = (IF Sources[i].type = "commit"
                         THEN Links[i].lookup = "ok"
                         ELSE Sources[i].urlOk)

\* the commit half of the statement alone
C14_CommitVerifiedExactly ==
  \A i \in 1..Len(Links) :
    Sources[i].type = "commit" => (Links[i].verified = (Links[i].lookup = "ok"))

\* C15: verification always returns a report with exactly one outcome per
\* Source citation, so verified + failed = number of citations: a History
\* Provider error while checking a citation marks only that citation
\* unverified, and every remaining citation is still checked.
C15_OneOutcomePerCitation ==
  /\ vfPc \in {"off", "parse", "verify", "source", "critique", "done"}
  /\ Len(Links) <= Len(Sources)
  /\ vfPc = "source" => Len(Links) < Len(Sources)
  /\ vfEnabled /\ vfPc \in {"critique", "done"} => Len(Links) = Len(Sources)
  /\ vfReport.claimsVerified + vfReport.claimsFailed = Len(Links)
  /\ \A i \in 1..Len(Links) :
       /\ Links[i].id = Sources[i].id
       /\ Links[i].lookup = "fail" => ~Links[i].verified
       /\ Links[i].lookup = "ok" => Links[i].verified

\* the lookup for the first of two citations failed: the second was still
\* checked, and the report counts one verified and one failed
C15_Witness ==
  /\ Verification
  /\ Len(Sources) = 2
  /\ Links[1].lookup = "fail"
  /\ Links[2].verified
  /\ vfReport.claimsVerified = 1
  /\ vfReport.claimsFailed = 1

IsDelay(e) == e.kind = "delay"

\* the backoff delays of call c, in seconds, in order
Delays(c) ==
  LET d == SelectSeq(envLog[c], IsDelay) IN [i \in 1..Len(d) |-> d[i].arg]

\* every attempt of call c ended in an overload
AllOverloaded(c) ==
  /\ Len(RsLog(c)) = MaxRetries
  /\ \A i \in 1..MaxRetries : Overloaded(RsLog(c)[i].out)

\* C16: when the Reasoning Service signals overload on every attempt, the
\* delays applied before the fatal failure is raised are 1s, 2s and 4s in
\* that order, and no re-attempt is made without its preceding delay.
C16_BackoffDelays ==
  \A c \in Calls :
    /\ pc[c] = "done" /\ AllOverloaded(c) => Delays(c) = <<1, 2, 4>>
    /\ \A i \in 2..Len(envLog[c]) :
         envLog[c][i].kind = "rs" /\ envLog[c][i].arg > 0
           => envLog[c][i-1].kind = "delay"

\* the second half alone, with the delays the code applies: 1s before the
\* second attempt, 2s before the third
C16_ReattemptAfterDelay ==
  \A c \in Calls :
    /\ pc[c] = "done" /\ AllOverloaded(c) => Delays(c) = <<1, 2>>
    /\ \A i \in 2..Len(envLog[c]) :
         envLog[c][i].kind = "rs" /\ envLog[c][i].arg > 0
           => envLog[c][i-1].kind = "delay"

\* C17: the result's confidence is the number the first matching confidence
\* pattern captures (clamped to [0,100]), for every stated value from 0 to
\* 100; the default, 92 with evidence and 65 without, is used only when no
\* pattern matches.
C17_StatedConfidence ==
  Parsed =>
    vfInvestigation.confidence =
      (IF vfResponse.stated = NoMatch
       THEN (IF Len(vfCase.evidence) > 0 THEN 92 ELSE 65)
       ELSE Min(100, vfResponse.stated))

\* the same for the stated values other than 0
C17_StatedNonZero ==
  Parsed /\ vfResponse.stated # 0 =>
    vfInvestigation.confidence =
      (IF vfResponse.stated = NoMatch
       THEN (IF Len(vfCase.evidence) > 0 THEN 92 ELSE 65)
       ELSE Min(100, vfResponse.stated))

\* C18: throughout an investigate call the Case's evidence list only grows:
\* after every step, succeeded or failed, the list has the list from before
\* the step as a prefix; items are never removed, reordered or edited.
C18_EvidenceAppendOnly ==
  [][\A k \in Calls : IsPrefix(caseFile[k].evidence, caseFile'[k].evidence)]_vars

\* a finished call with four evidence items gathered around a failed
\* commit-detail lookup and a failed issue lookup
C18_Witness ==
  \E c \in Calls :
    /\ pc[c] = "done"
    /\ {"commit", "issue"} \subseteq FailedLookups(c)
    /\ Len(caseFile[c].evidence) = 4
    /\ caseFile[c].evidence[1].type = "blame"
    /\ caseFile[c].evidence[4].type = "file_history"

\* the external call that call c has issued and that has not settled
PendingCalls(c) ==
  IF pc[c] = "await_blame" THEN <<[kind |-> "blame", arg |-> 0, out |-> "pending"]>>
  ELSE IF pc[c] = "await_commit" THEN <<[kind |-> "commit", arg |-> 0, out |-> "pending"]>>
  ELSE IF pc[c] = "await_remote" THEN <<[kind |-> "remote", arg |-> 0, out |-> "pending"]>>
  ELSE IF pc[c] = "await_pr" THEN <<[kind |-> "pr", arg |-> 0, out |-> "pending"]>>
  ELSE IF pc[c] = "await_issue"
       THEN <<[kind |-> "issue", arg |-> issueNums[c][issueIdx[c]], out |-> "pending"]>>
  ELSE IF pc[c] = "await_history" THEN <<[kind |-> "file_history", arg |-> 0, out |-> "pending"]>>
  ELSE IF pc[c] = "await_rs" THEN <<[kind |-> "rs", arg |-> attempt[c], out |-> "pending"]>>
  ELSE <<>>

\* the external calls issued by call c, in the order of their issue (the
\* backoff timers left out)
Issued(c) ==
  SelectSeq(envLog[c], LAMBDA e : e.kind # "delay") \o PendingCalls(c)

\* the place of an external call in the pipeline
Rank(kind) ==
  CASE kind = "blame" -> 1
    [] kind = "commit" -> 2
    [] kind = "remote" -> 3
    [] kind = "pr" -> 4
    [] kind = "issue" -> 5
    [] kind = "file_history" -> 6
    [] kind = "rs" -> 7

IssuedKind(c, kind) == \E i \in 1..Len(Issued(c)) : Issued(c)[i].kind = kind

SettledAs(c, kind, out) ==
  \E i \in 1..Len(envLog[c]) : envLog[c][i].kind = kind /\ envLog[c][i].out = out

\* C19: within one investigate call the external calls are issued one at a
\* time in the order blame, commit detail, pull-request lookup (after the
\* remote lookup that resolves owner/repo), issue lookups, file history,
\* Reasoning Service, each after the previous one has settled; commit detail
\* and pull-request lookup are not issued when blame failed, the
\* pull-request lookup is not issued when owner/repo cannot be resolved.
C19_CallOrder ==
  \A c \in Calls :
    /\ LET iss == Issued(c) IN
       \A i, j \in 1..Len(iss) :
         i < j =>
           /\ Rank(iss[i].kind) <= Rank(iss[j].kind)
           /\ iss[i].out # "pending"
           /\ Rank(iss[i].kind) = Rank(iss[j].kind)
                => iss[i].kind \in {"issue", "rs"}
    /\ SettledAs(c, "blame", "fail") =>
         ~IssuedKind(c, "commit") /\ ~IssuedKind(c, "remote") /\ ~IssuedKind(c, "pr")
    /\ SettledAs(c, "remote", "fail") => ~IssuedKind(c, "pr")
    /\ IssuedKind(c, "pr") /\ ~selHasRepo[c] => SettledAs(c, "remote", "ok")

\* a call that made every kind of external call, two issue lookups and a
\* second attempt of the Reasoning Service included
C19_Witness ==
  \E c \in Calls :
    /\ pc[c] = "done"
    /\ [i \in 1..Len(Issued(c)) |-> Issued(c)[i].kind] =
         <<"blame", "commit", "remote", "pr", "issue", "issue",
           "file_history", "rs", "rs">>

\* the issue lookups issued by call c
IssueLookups(c) == SelectSeq(Issued(c), LAMBDA e : e.kind = "issue")

\* C20: in one investigate call every History Provider and Code-Host lookup
\* is attempted at most once, a failed one never repeated, and at most 5
\* issue lookups are made, each for a distinct issue number.
C20_LookupsOnce ==
  \A c \in Calls :
    /\ LET iss == Issued(c) IN
       \A i, j \in 1..Len(iss) :
         i # j /\ iss[i].kind = iss[j].kind /\ iss[i].kind # "rs"
         => iss[i].kind = "issue" /\ iss[i].arg # iss[j].arg
    /\ Len(IssueLookups(c)) <= IssueLimit

\* a pull request that links six issues: five lookups were made, one of
\* which failed, and the call went on
C20_Witness ==
  \E c \in Calls :
    /\ pc[c] = "done"
    /\ HasEvidence(caseFile[c], "pr")
    /\ Len(FindEvidence(caseFile[c], "pr").linked) = IssueLimit + 1
    /\ Len(IssueLookups(c)) = IssueLimit
    /\ "issue" \in FailedLookups(c)
    /\ outcome[c] = "returned"

\* ------------------------------------------------------ the reasoning trace
\* result.thoughtChain.signatures of call c as a reader finds it now: the
\* result's thoughtChain is a shallow copy ({ ...this.thoughtChain }, line
\* 381), so it shares the signatures array that was current at that moment
Trace(c) == thoughtChain.arrays[result[c].thoughtChain]

IsOk(e) == e.out = "ok"

\* C21: for investigate calls made one after another on one instance, the
\* trace of each returned result holds one signature per successful Reasoning
\* Service call of that call, in order, none of another call; this holds in
\* every later state, so later calls do not alter a returned trace.
C21_TraceOfOwnCall ==
  \A c \in Calls :
    outcome[c] = "returned" =>
      LET ok == SelectSeq(RsLog(c), IsOk)
      IN /\ Len(Trace(c)) = Len(ok)
         /\ \A i \in 1..Len(Trace(c)) :
              /\ Trace(c)[i].call = c
              /\ Trace(c)[i].attempt = ok[i].arg

\* two calls returned; the second one succeeded on a later attempt
C21_Witness ==
  /\ \A c \in Calls : outcome[c] = "returned" /\ pc[c] = "done"
  /\ Len(Trace(1)) = 1 /\ Trace(1)[1].call = 1
  /\ Len(RsLog(NumCalls)) > 1
  /\ Trace(NumCalls)[1].attempt > 0

\* ------------------------------------------- issues a commit message names
\* C22: blame and the commit lookup succeed, the commit message references an
\* issue, no pull request is found, no issue lookup fails and file history is
\* unavailable: the Case ends with exactly the 3 items blame, commit, issue.
C22_IssueFromCommitMessage ==
  \A c \in Calls :
    /\ pc[c] = "done"
    /\ ~cbRaised[c]
    /\ SettledAs(c, "blame", "ok")
    /\ SettledAs(c, "commit", "ok")
    /\ FindEvidence(caseFile[c], "commit").linked # <<>>
    /\ SettledAs(c, "pr", "none")
    /\ ~SettledAs(c, "issue", "fail")
    /\ SettledAs(c, "file_history", "fail")
    => EvidenceKeys(c) =
         <<<<"blame", BlameHash>>, <<"commit", BlameHash>>,
           <<"issue", FindEvidence(caseFile[c], "commit").linked[1]>>>>

\* ---------------------------------------------------------- buildTimeline
\* pr.mergedAt of a pull request that is not merged (null, part_003 line 422)
NotMerged == 0

Dates == 1..MaxDate

\* an Evidence item with the dates of its data: blame.timestamp, commit.date
\* or createdAt, and for a pull request mergedAt
TimedEvidence(type, id, date, mergedAt) ==
  [type |-> type, id |-> id, date |-> date, mergedAt |-> mergedAt]

\* the issue Evidence for linked issues 1..n, each with a creation date
RECURSIVE TimedIssues(_)
TimedIssues(n) ==
  IF n = 0 THEN {<<>>}
  ELSE {Append(s, TimedEvidence("issue", n, d, NotMerged)) :
          s \in TimedIssues(n - 1), d \in Dates}

\* the evidence lists the pipeline can hand to synthesis, with their dates:
\* blame; commit and pull request only after blame; issues only with a pull
\* request; file history. A pull request is merged on or after its creation
TimedCases ==
  LET blames == {<<TimedEvidence("blame", BlameHash, d, NotMerged)>> : d \in Dates}
      commits == {<<>>} \cup
                 {<<TimedEvidence("commit", BlameHash, d, NotMerged)>> : d \in Dates}
      issues == UNION {TimedIssues(n) : n \in 0..MaxLinked}
      prs == {<<>>} \cup
             UNION {{<<TimedEvidence("pr", PRNumber, d, m)>> \o iss :
                       m \in {NotMerged} \cup {x \in Dates : x >= d},
                       iss \in issues} :
                      d \in Dates}
      heads == {<<>>} \cup {b \o c \o p : b \in blames, c \in commits, p \in prs}
      tails == {<<>>, <<TimedEvidence("file_history", 0, 0, NotMerged)>>}
  IN {[evidence |-> h \o t] : h \in heads, t \in tails}

\* a TimelineEvent: date, type, sourceId; "merged" tells the two events of a
\* pull request apart (title `PR #n Merged`)
TimelineEvent(date, type, id, merged) ==
  [date |-> date, type |-> type, sourceId |-> id, merged |-> merged]

\* buildTimeline lines 507-567: what the switch pushes for one Evidence item
EventsOf(e) ==
  IF e.type \in {"blame", "commit", "issue"}
  THEN <<TimelineEvent(e.date, e.type, e.id, FALSE)>>
  ELSE IF e.type = "pr"
  THEN <<TimelineEvent(e.date, "pr", e.id, FALSE)>> \o
       (IF e.mergedAt # NotMerged
        THEN <<TimelineEvent(e.mergedAt, "pr", e.id, TRUE)>> ELSE <<>>)
  ELSE <<>>

\* buildTimeline lines 506-568: the loop over caseFile.evidence
RECURSIVE CollectEvents(_)
CollectEvents(evidence) ==
  IF evidence = <<>> THEN <<>>
  ELSE EventsOf(Head(evidence)) \o CollectEvents(Tail(evidence))

SortByDateSkipped(evs) == evs

\* events.sort((a, b) => a.date.getTime() - b.date.getTime()): a stable sort,
\* each event placed behind the events that are not later than it
RECURSIVE SortByDate(_)
SortByDate(evs) ==
  IF evs = <<>> THEN <<>>
  ELSE LET x == evs[Len(evs)]
           sorted == SortByDate(SubSeq(evs, 1, Len(evs) - 1))
           k == Cardinality({i \in 1..Len(sorted) : sorted[i].date <= x.date})
       IN SubSeq(sorted, 1, k) \o <<x>> \o SubSeq(sorted, k + 1, Len(sorted))

\* buildTimeline, part_001 lines 503-574
BuildTimeline(cs) == SortByDate(CollectEvents(cs.evidence))

\* synthesis received a response for some Case
InitTL ==
  /\ onUpdate = FALSE
  /\ maxCalls = 0
  /\ overlap = FALSE
  /\ varied = FALSE
  /\ InvInit
  /\ DDIdle
  /\ VFIdle
  /\ WMInit
  /\ CRIdle
  /\ tlCase \in TimedCases
  /\ tlPc = "parse"
  /\ tlTimeline = <<>>

\* parseInvestigationResponse lines 369-383: the timeline of the result
BuildResultTimeline ==
  /\ tlPc = "parse"
  /\ tlTimeline' = BuildTimeline(tlCase)
  /\ tlPc' = "done"
  /\ UNCHANGED <<invVars, ddVars, vfVars, wmVars, crVars, tlCase>>

NextTL == BuildResultTimeline

SpecTL == InitTL /\ [][NextTL]_vars

\* the events of the timeline with this type, source, kind and date
EventCount(type, id, merged, date) ==
  Cardinality({j \in 1..Len(tlTimeline) :
                 tlTimeline[j] = TimelineEvent(date, type, id, merged)})

\* C23: the timeline is determined by the Case's evidence: exactly one event
\* per blame item, commit item, pull-request creation, pull-request merge and
\* issue creation, each with that item's date, no other event (none for file
\* history), in non-decreasing date order.
C23_TimelineFromEvidence ==
  tlPc = "done" =>
    LET ev == tlCase.evidence
        dated == {i \in 1..Len(ev) : ev[i].type # "file_history"}
        merged == {i \in dated : ev[i].type = "pr" /\ ev[i].mergedAt # NotMerged}
    IN /\ \A i \in dated :
            EventCount(ev[i].type, ev[i].id, FALSE, ev[i].date) = 1
       /\ \A i \in merged :
            EventCount("pr", ev[i].id, TRUE, ev[i].mergedAt) = 1
       /\ Len(tlTimeline) = Cardinality(dated) + Cardinality(merged)
       /\ \A j \in 1..(Len(tlTimeline) - 1) :
            tlTimeline[j].date <= tlTimeline[j + 1].date

\* a merged pull request, an issue older than the blamed commit, a file
\* history item: five events, the issue's first
C23_Witness ==
  /\ tlPc = "done"
  /\ Len(tlCase.evidence) = 5
  /\ tlCase.evidence[3].mergedAt # NotMerged
  /\ tlCase.evidence[4].date < tlCase.evidence[1].date
  /\ tlCase.evidence[5].type = "file_history"
  /\ Len(tlTimeline) = 5
  /\ tlTimeline[1].type = "issue"

\* ------------------------------------------------- discovery's expansion
\* the files of node.children of the node at `at`, in order
ChildFiles(at) ==
  [i \in 1..Len(ChildrenOf(tree, at)) |-> ChildrenOf(tree, at)[i].file]

\* the tree is expanded exactly down to depth d
ExpandedTo(d) ==
  \A n \in tree :
    /\ Len(n.at) < d => ChildFiles(n.at) = imports[n.file]
    /\ Len(n.at) = d => ChildFiles(n.at) = <<>>

\* the target imports two files and each of them imports a further file
TwoByOne ==
  /\ Len(imports[Root]) = 2
  /\ \A i \in 1..2 : /\ imports[Root][i] # Root
                     /\ imports[imports[Root][i]] # <<>>

\* C24: discovery expands exactly down to the configured maxDepth: every
\* resolvable import of a file above that depth is a child node, in order,
\* and the nodes at that depth are leaves; with maxDepth = 1 and a target
\* importing two files that import further files, the root has exactly 2
\* children and each child has none.
C24_ExpandsToMaxDepth ==
  ddPc # "idle" =>
    /\ ExpandedTo(cfgMaxDepth)
    /\ cfgMaxDepth = 1 /\ TwoByOne =>
         /\ Len(ChildFiles(<<>>)) = 2
         /\ \A i \in 1..2 : ChildFiles(<<i>>) = <<>>

\* the same for the configured values other than 0
C24_ExpandsToPositiveDepth ==
  ddPc # "idle" /\ cfgMaxDepth >= 1 =>
    /\ ExpandedTo(cfgMaxDepth)
    /\ cfgMaxDepth = 1 /\ TwoByOne =>
         /\ Len(ChildFiles(<<>>)) = 2
         /\ \A i \in 1..2 : ChildFiles(<<i>>) = <<>>

\* -------------------------------------------------- the DeepDiveResult
\* deepDive line 227: totalFilesExplored: this.exploredFiles.size
TotalFilesExplored == Cardinality(exploredFiles)

\* C25: the totalFilesExplored of a DeepDiveResult is the number of
\* investigations the result holds: 1 for the main investigation plus the
\* entries of relatedInvestigations, also when related investigations fail.
C25_CountsInvestigations ==
  ddPc = "done" => TotalFilesExplored = 1 + Cardinality(related)

\* what the count is: the files the pipeline was started on
C25_CountsStartedFiles ==
  ddPc = "done" => TotalFilesExplored = 1 + Cardinality(RunNonRoot)

\* ------------------------------------------------------ repeated citations
\* C26: the Sources of an InvestigationResult never hold two entries with the
\* same kind and identifier, however often the response text mentions an
\* item, so verification counts each cited item once.
C26_SourcesDistinct ==
  Parsed =>
    /\ \A i, j \in 1..Len(Sources) :
         Sources[i].type = Sources[j].type /\ Sources[i].id = Sources[j].id
         => i = j
    /\ vfPc = "done" /\ vfEnabled =>
         Len(Links) = Cardinality({Sources[i].id : i \in 1..Len(Sources)})

\* the same for the commit and pull-request entries alone
C26_CommitAndPRSourcesDistinct ==
  Parsed =>
    \A i, j \in 1..Len(Sources) :
      /\ Sources[i].type \in {"commit", "pr"}
      /\ Sources[i].type = Sources[j].type /\ Sources[i].id = Sources[j].id
      => i = j

\* ------------------------------------------- failures of related files
\* the files other than the target whose investigation was started and
\* left no result
FailedRelated == RunNonRoot \ related

\* this step starts the investigation of a related file f, and it fails
RelatedFails(f) ==
  /\ f # Root
  /\ runs'[f] = runs[f] + 1
  /\ f \notin related'

\* C27: a failure while investigating a related file never aborts the Deep
\* Dive: the failed file gets no entry in relatedInvestigations, the entries
\* already there stay, and the loop moves on to the next sibling with the
\* budget it had; deepDive fails only when the investigation of the target
\* fails, and a finished run holds the main investigation.
C27_RelatedFailureContained ==
  /\ [](ddPc = "failed" => runs[Root] = 1 /\ RunNonRoot = {})
  /\ [](ddPc = "done" => runs[Root] = 1 /\ related \subseteq RunNonRoot)
  /\ [][\A f \in Files :
          RelatedFails(f) =>
            /\ ddPc' = "explore"
            /\ related' = related
            /\ Len(stack') = Len(stack)
            /\ stack'[Len(stack)].at = Top.at
            /\ stack'[Len(stack)].idx = Top.idx + 1
            /\ stack'[Len(stack)].remaining = Top.remaining]_vars

\* a finished run in which the investigation of the target's first import
\* failed and that of its second import succeeded
C27_Witness ==
  /\ ddPc = "done"
  /\ \E a, b \in tree :
       /\ a.at = <<1>> /\ a.file \in FailedRelated
       /\ b.at = <<2>> /\ b.file \in related
       /\ b.at \in investigated

\* ------------------------------------------------------ the progress stream
IsTerminal(u) == u.phase \in {"completed", "failed"}

LastEvent(c) == events[c][Len(events[c])]

\* C28: with a progress callback that does not raise, a call's first event is
\* 'initializing' and, once the call has ended, its last event is its only
\* terminal one: 'completed' with progress 100 exactly when a result is
\* returned, 'failed' exactly when an error is raised; a running call has
\* emitted no terminal event.
C28_ProgressStream ==
  \A c \in Calls :
    onUpdate /\ ~cbRaised[c] /\ pc[c] # "idle" =>
      /\ Len(events[c]) >= 1
      /\ events[c][1].phase = "initializing"
      /\ \A i \in 1..Len(events[c]) :
           IsTerminal(events[c][i]) => i = Len(events[c]) /\ pc[c] = "done"
      /\ pc[c] = "done" =>
           /\ outcome[c] = "returned" <=>
                LastEvent(c) = StreamUpdate("completed", 100)
           /\ outcome[c] = "raised" <=> LastEvent(c).phase = "failed"
           /\ outcome[c] \in {"returned", "raised"}

\* a call that failed in synthesis after every lookup had succeeded: seven
\* events before its only terminal one
C28_Witness ==
  \E c \in Calls :
    /\ onUpdate /\ ~cbRaised[c] /\ pc[c] = "done"
    /\ outcome[c] = "raised"
    /\ Len(events[c]) = 8
    /\ LastEvent(c).phase = "failed"

\* a call that returned its result
C28_WitnessCompleted ==
  \E c \in Calls :
    /\ onUpdate /\ ~cbRaised[c] /\ pc[c] = "done"
    /\ outcome[c] = "returned"
    /\ LastEvent(c) = StreamUpdate("completed", 100)

\* ---------------------------------------------------------- WatchModeAgent
\* a timer id that names no scheduled timer and is not held by pollTimer
FreshTimer == CHOOSE t \in 1..(Cardinality(timers) + 2) :
                t \notin timers /\ t # pollTimer

\* poll lines 124-128: `if (!this.isWatching) return`, else the call runs up
\* to its first await; n is the number of suspended polls
EnterPoll(watching, n) == IF watching THEN n + 1 ELSE n

\* a WatchModeAgent right after construction
InitWM ==
  /\ onUpdate = FALSE
  /\ maxCalls = 0
  /\ overlap = FALSE
  /\ varied = FALSE
  /\ InvInit
  /\ DDIdle
  /\ VFIdle
  /\ TLIdle
  /\ CRIdle
  /\ WMInit

\* start lines 82-88: the guard, then the await of getLatestCommitHash
StartCalled ==
  /\ wmCalls < MaxWatchCalls
  /\ wmCalls' = wmCalls + 1
  /\ starts' = IF isWatching THEN starts ELSE starts + 1
  /\ UNCHANGED <<isWatching, pollTimer, timers, polls>>

\* start lines 88-102: getLatestCommitHash settles; on success isWatching is
\* set and poll() is called, which runs up to its first await
StartResumed ==
  /\ starts > 0
  /\ starts' = starts - 1
  /\ \E ok \in BOOLEAN :
       IF ok
       THEN /\ isWatching' = TRUE
            /\ polls' = EnterPoll(TRUE, polls)
       ELSE UNCHANGED <<isWatching, polls>>
  /\ UNCHANGED <<pollTimer, timers, wmCalls>>

\* stop lines 108-119
StopCalled ==
  /\ wmCalls < MaxWatchCalls
  /\ wmCalls' = wmCalls + 1
  /\ timers' = timers \ {pollTimer}
  /\ pollTimer' = 0
  /\ isWatching' = FALSE
  /\ UNCHANGED <<polls, starts>>

\* poll lines 130-148: the awaited work of a poll is over (or has thrown,
\* which is caught); the next poll is scheduled
PollFinished ==
  /\ polls > 0
  /\ polls' = polls - 1
  /\ timers' = timers \cup {FreshTimer}
  /\ pollTimer' = FreshTimer
  /\ UNCHANGED <<isWatching, starts, wmCalls>>

\* a scheduled timer fires: () => this.poll()
TimerFired ==
  \E t \in timers :
    /\ timers' = timers \ {t}
    /\ polls' = EnterPoll(isWatching, polls)
    /\ UNCHANGED <<isWatching, pollTimer, starts, wmCalls>>

NextWM ==
  /\ \/ StartCalled
     \/ StartResumed
     \/ StopCalled
     \/ PollFinished
     \/ TimerFired
  /\ UNCHANGED <<invVars, ddVars, vfVars, tlVars, crVars>>

SpecWM == InitWM /\ [][NextWM]_vars

\* the poll loops: polls running and poll timers scheduled
PollLoops == polls + Cardinality(timers)

\* C29: for every interleaving of start() and stop() with in-flight polls,
\* at most one poll loop exists while watching, and none remains once stop()
\* has been called and the poll in flight at that moment has finished.
C29_SinglePollLoop ==
  /\ isWatching => PollLoops <= 1
  /\ ~isWatching /\ polls = 0 => timers = {}

\* the first half alone
C29_OneLoopWhileWatching == isWatching => PollLoops <= 1

\* the second half alone
C29_NoLoopAfterStop == ~isWatching /\ polls = 0 => timers = {}

\* what does hold: a stopped agent starts no further poll, so its loops
\* only end
C29_StoppedAgentWindsDown ==
  [][~isWatching /\ ~isWatching' => PollLoops' <= PollLoops]_vars

\* --------------------------------------------- ConflictResolverAgent
\* resolveAll line 911: `resolution.confidence >= 70`
ApplyThreshold == 70

\* a line of the file: what it is, and the conflict block it belongs to
\* (0: none); the block is the model's record, the code sees the kind only
Line(kind, of) == [kind |-> kind, of |-> of]

\* "<<<<<<< ours", a line, "=======", a line, ">>>>>>> theirs"
ConflictBlock(k) ==
  <<Line("start", k), Line("ours", k), Line("middle", k),
    Line("theirs", k), Line("end", k)>>

\* a file with the conflict blocks 1..n, pad ordinary lines before each
RECURSIVE FileWith(_, _)
FileWith(n, pad) ==
  IF n = 0 THEN <<>>
  ELSE FileWith(n - 1, pad) \o [i \in 1..pad |-> Line("text", 0)]
       \o ConflictBlock(n)

\* the files findConflictedFiles can report
ConflictedFiles ==
  {FileWith(n, pad) : n \in 1..MaxConflicts, pad \in 0..1}

\* CONFLICT_START.test(line), CONFLICT_MIDDLE.test(line), CONFLICT_END.test(line)
IsStart(line) == line.kind = "start"
IsMiddle(line) == line.kind = "middle"
IsEnd(line) == line.kind = "end"

\* parseConflictsInFile lines 1025-1060: the loop from line i on (lines are
\* counted from 1, as startLine and endLine are)
RECURSIVE ParseFrom(_, _, _, _, _)
ParseFrom(lines, i, inConflict, conflictStart, conflicts) ==
  IF i > Len(lines) THEN conflicts
  ELSE IF IsStart(lines[i])
  THEN ParseFrom(lines, i + 1, TRUE, i, conflicts)
  ELSE IF IsMiddle(lines[i]) /\ inConflict
  THEN ParseFrom(lines, i + 1, inConflict, conflictStart, conflicts)
  ELSE IF IsEnd(lines[i]) /\ inConflict
  THEN ParseFrom(lines, i + 1, FALSE, conflictStart,
                 Append(conflicts, [startLine |-> conflictStart, endLine |-> i]))
  ELSE ParseFrom(lines, i + 1, inConflict, conflictStart, conflicts)

\* parseConflictsInFile, deepDive.ts lines 1012-1063
ParseConflictsInFile(lines) == ParseFrom(lines, 1, FALSE, 0, <<>>)

\* resolution.resolution for the k-th conflict: n lines of merged code
ResolutionText(k, n) == [i \in 1..n |-> Line("resolved", k)]

\* applyResolution lines 1220-1239: the loop from line i on
RECURSIVE ApplyFrom(_, _, _, _, _, _)
ApplyFrom(lines, i, skipUntilEnd, conflict, text, newLines) ==
  IF i > Len(lines) THEN newLines
  ELSE IF IsStart(lines[i])
  THEN IF i = conflict.startLine
       THEN ApplyFrom(lines, i + 1, TRUE, conflict, text, newLines \o text)
       ELSE ApplyFrom(lines, i + 1, skipUntilEnd, conflict, text,
                      Append(newLines, lines[i]))
  ELSE IF IsEnd(lines[i]) /\ skipUntilEnd
  THEN ApplyFrom(lines, i + 1, FALSE, conflict, text, newLines)
  ELSE IF ~skipUntilEnd
  THEN ApplyFrom(lines, i + 1, skipUntilEnd, conflict, text,
                 Append(newLines, lines[i]))
  ELSE ApplyFrom(lines, i + 1, skipUntilEnd, conflict, text, newLines)

\* applyResolution, deepDive.ts lines 1206-1242: the file it writes
ApplyResolution(lines, conflict, text) ==
  ApplyFrom(lines, 1, FALSE, conflict, text, <<>>)

\* resolveAll is called on a repository with one conflicted file
InitCR ==
  /\ onUpdate = FALSE
  /\ maxCalls = 0
  /\ overlap = FALSE
  /\ varied = FALSE
  /\ InvInit
  /\ DDIdle
  /\ VFIdle
  /\ TLIdle
  /\ WMInit
  /\ autoApply \in BOOLEAN
  /\ crFile \in ConflictedFiles
  /\ crConflicts = <<>>
  /\ crIdx = 0
  /\ crResolutions = <<>>
  /\ crPc = "start"

\* resolveAll lines 860-891: the file's conflicts are parsed, once
ResolveAllStart ==
  /\ crPc = "start"
  /\ crConflicts' = ParseConflictsInFile(crFile)
  /\ crIdx' = 1
  /\ crPc' = IF ParseConflictsInFile(crFile) = <<>> THEN "done" ELSE "loop"
  /\ UNCHANGED <<autoApply, crFile, crResolutions>>

\* resolveAll lines 893-929: one round of the loop over the conflicts.
\* resolveConflict returns a resolution (confidence 30 when the Reasoning
\* Service failed); applyResolution may throw on the file system, which
\* leaves appliedAt unset
ResolveNext ==
  /\ crPc = "loop"
  /\ \E confidence \in {30, 90}, n \in 1..MaxResLines :
       LET apply == confidence >= ApplyThreshold /\ autoApply IN
       \E written \in IF apply THEN BOOLEAN ELSE {FALSE} :
         /\ crFile' = IF written
                      THEN ApplyResolution(crFile, crConflicts[crIdx],
                                           ResolutionText(crIdx, n))
                      ELSE crFile
         /\ crResolutions' =
              Append(crResolutions,
                     [conflict |-> crIdx, confidence |-> confidence,
                      appliedAt |-> written])
  /\ crIdx' = crIdx + 1
  /\ crPc' = IF crIdx = Len(crConflicts) THEN "done" ELSE "loop"
  /\ UNCHANGED <<autoApply, crConflicts>>

NextCR ==
  /\ \/ ResolveAllStart
     \/ ResolveNext
  /\ UNCHANGED <<invVars, ddVars, vfVars, tlVars, wmVars>>

SpecCR == InitCR /\ [][NextCR]_vars

\* the markers of conflict block k are gone from the file and its
\* resolution text is there
Replaced(k) ==
  /\ \A i \in 1..Len(crFile) :
       crFile[i].of = k => crFile[i].kind = "resolved"
  /\ \E i \in 1..Len(crFile) : crFile[i] = Line("resolved", k)

\* C30: after resolveAll with auto-apply, every resolution recorded as
\* applied (appliedAt set) has replaced its conflict block in the file: that
\* conflict's markers are gone, also when several conflicts of one file are
\* applied one after another.
C30_AppliedMeansReplaced ==
  crPc = "done" /\ autoApply =>
    \A r \in 1..Len(crResolutions) :
      crResolutions[r].appliedAt => Replaced(crResolutions[r].conflict)

\* what holds: the first resolution applied to a file replaces its block
C30_FirstAppliedReplaced ==
  crPc = "done" /\ autoApply =>
    \A r \in 1..Len(crResolutions) :
      /\ crResolutions[r].appliedAt
      /\ \A q \in 1..(r - 1) : ~crResolutions[q].appliedAt
      => Replaced(crResolutions[r].conflict)

====
